---- MODULE Spec2Model ----
(***************************************************************************)
(* Model of src/mindmap.py: the MindMap session object (edges, nodes,      *)
(* conversation), the command parser and edge resolver                     *)
(* (parse_and_include_edges), single-node deletion (_delete_node) and the  *)
(* two generation rounds (ask_for_initial_graph, ask_for_extended_graph).  *)
(*                                                                         *)
(* Texts and node labels are strings; a string is a sequence of            *)
(* characters, read with Len, SubSeq and \o.                               *)
(***************************************************************************)
EXTENDS Bags, FiniteSets, Integers, Sequences, TLC

(***************************************************************************)
(* Characters and substrings                                               *)
(***************************************************************************)
Ch(s, i) == SubSeq(s, i, i)

StartsWith(s, i, lit) ==
    /\ i + Len(lit) - 1 <= Len(s)
    /\ SubSeq(s, i, i + Len(lit) - 1) = lit

\* the characters str.strip() removes and the regex class \s matches
IsSpace(c) == c \in {" ", "\t", "\n", "\r", "\f"}

\* the characters textwrap.dedent treats as indentation: [ \t]
IsIndent(c) == c \in {" ", "\t"}

\* the regex class [^()"] of the two patterns
IsLabelCh(c) == c \notin {"(", ")", "\""}

(***************************************************************************)
(* Message.__post_init__: content = dedent(content).strip()                *)
(***************************************************************************)
\* index of the first "\n" at or after i, Len(s)+1 when there is none
NextNewline(s, i) ==
    CHOOSE j \in i..(Len(s) + 1) :
        /\ j = Len(s) + 1 \/ Ch(s, j) = "\n"
        /\ \A k \in i..(j - 1) : Ch(s, k) # "\n"

RECURSIVE SplitFrom(_, _)
SplitFrom(s, i) ==
    LET j == NextNewline(s, i)
    IN  IF j = Len(s) + 1
        THEN <<SubSeq(s, i, Len(s))>>
        ELSE <<SubSeq(s, i, j - 1)>> \o SplitFrom(s, j + 1)

\* the lines of s, split at "\n" (where ^ and $ match under re.MULTILINE)
SplitLines(s) == SplitFrom(s, 1)

RECURSIVE JoinLines(_)
JoinLines(ls) ==
    IF Len(ls) = 1 THEN ls[1] ELSE ls[1] \o "\n" \o JoinLines(Tail(ls))

\* length of the leading run of [ \t] of a line
IndentLen(line) ==
    CHOOSE j \in 0..Len(line) :
        /\ j = Len(line) \/ ~IsIndent(Ch(line, j + 1))
        /\ \A k \in 1..j : IsIndent(Ch(line, k))

\* a line with no character outside [ \t]: dedent normalises it to ""
IsBlankLine(line) == IndentLen(line) = Len(line)

\* the longest common prefix of two indentations
CommonPrefix(a, b) ==
    LET n == IF Len(a) <= Len(b) THEN Len(a) ELSE Len(b)
        k == CHOOSE k \in 0..n :
                 /\ SubSeq(a, 1, k) = SubSeq(b, 1, k)
                 /\ k = n \/ Ch(a, k + 1) # Ch(b, k + 1)
    IN  SubSeq(a, 1, k)

\* margin = None; for indent in indents: ... (the indentation of every line
\* that has a character outside [ \t])
RECURSIVE MarginFrom(_, _, _, _)
MarginFrom(ls, i, found, margin) ==
    IF i > Len(ls) THEN (IF found THEN margin ELSE "")
    ELSE IF IsBlankLine(ls[i]) THEN MarginFrom(ls, i + 1, found, margin)
    ELSE LET indent == SubSeq(ls[i], 1, IndentLen(ls[i]))
         IN  MarginFrom(ls, i + 1, TRUE,
                        IF found THEN CommonPrefix(margin, indent) ELSE indent)

Margin(ls) == MarginFrom(ls, 1, FALSE, "")

\* whitespace-only lines become "", the others lose the margin
RECURSIVE DedentLines(_, _, _)
DedentLines(ls, i, m) ==
    IF i > Len(ls) THEN <<>>
    ELSE <<IF IsBlankLine(ls[i]) THEN ""
           ELSE SubSeq(ls[i], m + 1, Len(ls[i]))>>
         \o DedentLines(ls, i + 1, m)

dedent(text) ==
    LET ls == SplitLines(text)
    IN  JoinLines(DedentLines(ls, 1, Len(Margin(ls))))

strip(s) ==
    LET n == Len(s)
    IN  IF \A i \in 1..n : IsSpace(Ch(s, i)) THEN ""
        ELSE LET a == CHOOSE i \in 1..n :
                          /\ ~IsSpace(Ch(s, i))
                          /\ \A k \in 1..(i - 1) : IsSpace(Ch(s, k))
                 b == CHOOSE i \in 0..(n - 1) :
                          /\ ~IsSpace(Ch(s, n - i))
                          /\ \A k \in 0..(i - 1) : IsSpace(Ch(s, n - k))
             IN  SubSeq(s, a, n - b)

\* self.content = dedent(self.content).strip()
post_init(content) == strip(dedent(content))

(***************************************************************************)
(* START_CONVERSATION: the fixed few-shot seed transcript                  *)
(***************************************************************************)
SEED_SYSTEM_RAW ==
       "\n"
    \o "        You are a useful mind map/undirected graph-generating AI that can generate mind maps\n"
    \o "        based on any input or instructions.\n"
    \o "    "

SEED_REQUEST_RAW ==
       "\n"
    \o "        You have the ability to perform the following actions given a request\n"
    \o "        to construct or modify a mind map/graph:\n"
    \o "\n"
    \o "        1. add(node1, node2) - add an edge between node1 and node2\n"
    \o "        2. delete(node1, node2) - delete the edge between node1 and node2\n"
    \o "        3. delete(node1) - deletes every edge connected to node1\n"
    \o "\n"
    \o "        Note that the graph is undirected and thus the order of the nodes does not matter\n"
    \o "        and duplicates will be ignored. Another important note: the graph should be sparse,\n"
    \o "        with many nodes and few edges from each node. Too many edges will make it difficult\n"
    \o "        to understand and hard to read. The answer should only include the actions to perform,\n"
    \o "        nothing else. If the instructions are vague or even if only a single word is provided,\n"
    \o "        still generate a graph of multiple nodes and edges that that could makes sense in the\n"
    \o "        situation. Remember to think step by step and debate pros and cons before settling on\n"
    \o "        an answer to accomplish the request as well as possible.\n"
    \o "\n"
    \o "        Here is my first request: Add a mind map about machine learning.\n"
    \o "    "

SEED_REPLY_RAW ==
       "\n"
    \o "        add(\"Machine learning\",\"AI\")\n"
    \o "        add(\"Machine learning\", \"Reinforcement learning\")\n"
    \o "        add(\"Machine learning\", \"Supervised learning\")\n"
    \o "        add(\"Machine learning\", \"Unsupervised learning\")\n"
    \o "        add(\"Supervised learning\", \"Regression\")\n"
    \o "        add(\"Supervised learning\", \"Classification\")\n"
    \o "        add(\"Unsupervised learning\", \"Clustering\")\n"
    \o "        add(\"Unsupervised learning\", \"Anomaly Detection\")\n"
    \o "        add(\"Unsupervised learning\", \"Dimensionality Reduction\")\n"
    \o "        add(\"Unsupervised learning\", \"Association Rule Learning\")\n"
    \o "        add(\"Clustering\", \"K-means\")\n"
    \o "        add(\"Classification\", \"Logistic Regression\")\n"
    \o "        add(\"Reinforcement learning\", \"Proximal Policy Optimization\")\n"
    \o "        add(\"Reinforcement learning\", \"Q-learning\")\n"
    \o "    "

SEED_REQUEST2_RAW ==
       "\n"
    \o "        Remove the parts about reinforcement learning and K-means.\n"
    \o "    "

SEED_REPLY2_RAW ==
       "\n"
    \o "        delete(\"Reinforcement learning\")\n"
    \o "        delete(\"Clustering\", \"K-means\")\n"
    \o "    "

START_CONVERSATION ==
    << [content |-> post_init(SEED_SYSTEM_RAW), role |-> "system"],
       [content |-> post_init(SEED_REQUEST_RAW), role |-> "user"],
       [content |-> post_init(SEED_REPLY_RAW), role |-> "assistant"],
       [content |-> post_init(SEED_REQUEST2_RAW), role |-> "user"],
       [content |-> post_init(SEED_REPLY2_RAW), role |-> "assistant"] >>

(***************************************************************************)
(* The command grammar: pattern1, pattern2 and re.findall                  *)
(***************************************************************************)
\* end (exclusive) of the maximal run of [^()"] starting at i
LabelEnd(s, i) ==
    CHOOSE j \in i..(Len(s) + 1) :
        /\ j = Len(s) + 1 \/ ~IsLabelCh(Ch(s, j))
        /\ \A k \in i..(j - 1) : IsLabelCh(Ch(s, k))

\* end (exclusive) of the maximal run of \s starting at i
SpaceEnd(s, i) ==
    CHOOSE j \in i..(Len(s) + 1) :
        /\ j = Len(s) + 1 \/ ~IsSpace(Ch(s, j))
        /\ \A k \in i..(j - 1) : IsSpace(Ch(s, k))

NoMatch == [ok |-> FALSE, groups |-> <<>>, end |-> 0]

\* variant: \s+ in place of \s* between the comma and the second label
pattern1_requiring_space(s, i) ==
    LET op == IF StartsWith(s, i, "add") THEN "add"
              ELSE IF StartsWith(s, i, "delete") THEN "delete" ELSE ""
        a1 == i + Len(op) + 2
        e1 == LabelEnd(s, a1)
        a2 == SpaceEnd(s, e1 + 2) + 1
        e2 == LabelEnd(s, a2)
    IN  IF /\ op # ""
           /\ StartsWith(s, i + Len(op), "(\"")
           /\ e1 > a1
           /\ StartsWith(s, e1, "\",")
           /\ a2 > e1 + 3
           /\ StartsWith(s, a2 - 1, "\"")
           /\ e2 > a2
           /\ StartsWith(s, e2, "\")")
        THEN [ok |-> TRUE,
              groups |-> <<op, SubSeq(s, a1, e1 - 1), SubSeq(s, a2, e2 - 1)>>,
              end |-> e2 + 2]
        ELSE [ok |-> FALSE, groups |-> <<>>, end |-> 0]

\* variant: the \s* between the comma and the second label is missing
pattern1_without_space(s, i) ==
    LET op == IF StartsWith(s, i, "add") THEN "add"
              ELSE IF StartsWith(s, i, "delete") THEN "delete" ELSE ""
        a1 == i + Len(op) + 2
        e1 == LabelEnd(s, a1)
        a2 == e1 + 3
        e2 == LabelEnd(s, a2)
    IN  IF /\ op # ""
           /\ StartsWith(s, i + Len(op), "(\"")
           /\ e1 > a1
           /\ StartsWith(s, e1, "\",\"")
           /\ e2 > a2
           /\ StartsWith(s, e2, "\")")
        THEN [ok |-> TRUE,
              groups |-> <<op, SubSeq(s, a1, e1 - 1), SubSeq(s, a2, e2 - 1)>>,
              end |-> e2 + 2]
        ELSE [ok |-> FALSE, groups |-> <<>>, end |-> 0]

\* pattern1 = (add|delete)\("([^()"]+)",\s*"([^()"]+)"\) anchored at i.
\* A label run [^()"]+ must be followed by a double quote, which the class
\* excludes, so the greedy run is the only candidate; likewise \s* before ".
pattern1(s, i) ==
    LET op == IF StartsWith(s, i, "add") THEN "add"
              ELSE IF StartsWith(s, i, "delete") THEN "delete" ELSE ""
        a1 == i + Len(op) + 2
        e1 == LabelEnd(s, a1)
        a2 == SpaceEnd(s, e1 + 2) + 1
        e2 == LabelEnd(s, a2)
    IN  IF /\ op # ""
           /\ StartsWith(s, i + Len(op), "(\"")
           /\ e1 > a1
           /\ StartsWith(s, e1, "\",")
           /\ StartsWith(s, a2 - 1, "\"")
           /\ e2 > a2
           /\ StartsWith(s, e2, "\")")
        THEN [ok |-> TRUE,
              groups |-> <<op, SubSeq(s, a1, e1 - 1), SubSeq(s, a2, e2 - 1)>>,
              end |-> e2 + 2]
        ELSE NoMatch

\* pattern2 = (delete)\("([^()"]+)"\) anchored at i
pattern2(s, i) ==
    LET a1 == i + 8
        e1 == LabelEnd(s, a1)
    IN  IF /\ StartsWith(s, i, "delete(\"")
           /\ e1 > a1
           /\ StartsWith(s, e1, "\")")
        THEN [ok |-> TRUE,
              groups |-> <<"delete", SubSeq(s, a1, e1 - 1)>>,
              end |-> e1 + 2]
        ELSE NoMatch

MatchAt(pattern, s, i) == IF pattern = 1 THEN pattern1(s, i) ELSE pattern2(s, i)

\* a match can only start at the first letter of add or delete
MatchesAt(pattern, s, i) ==
    Ch(s, i) \in {"a", "d"} /\ MatchAt(pattern, s, i).ok

\* re.findall: leftmost match, then resume at its end (matches are non-empty
\* and do not overlap); each match is its tuple of groups
RECURSIVE FindAllFrom(_, _, _)
FindAllFrom(pattern, s, pos) ==
    IF ~\E i \in pos..Len(s) : MatchesAt(pattern, s, i) THEN <<>>
    ELSE LET first == CHOOSE i \in pos..Len(s) :
                          /\ MatchesAt(pattern, s, i)
                          /\ \A k \in pos..(i - 1) : ~MatchesAt(pattern, s, k)
             m == MatchAt(pattern, s, first)
         IN  <<m.groups>> \o FindAllFrom(pattern, s, m.end)

findall(pattern, s) == FindAllFrom(pattern, s, 1)

\* variant: the one-argument matches come first
matches_of_one_argument_first(output) == findall(2, output) \o findall(1, output)

\* re.findall(pattern1, output) + re.findall(pattern2, output)
matches_of(output) == findall(1, output) \o findall(2, output)

\* variant: an add takes its pair out of remove_edges again
RECURSIVE Classify_last_wins(_, _, _)
Classify_last_wins(matches, k, acc) ==
    IF k > Len(matches) THEN acc
    ELSE LET op == matches[k][1]
             args == Tail(matches[k])
             add == op = "add"
         IN  IF add \/ (op = "delete" /\ Len(args) = 2)
             THEN IF args[1] = args[2]
                  THEN Classify_last_wins(matches, k + 1, acc)
                  ELSE IF add
                  THEN Classify_last_wins(matches, k + 1,
                         [acc EXCEPT !.new_edges = Append(@, <<args[1], args[2]>>),
                                     !.remove_edges = @ \ {{args[1], args[2]}}])
                  ELSE Classify_last_wins(matches, k + 1,
                         [acc EXCEPT !.remove_edges = @ \cup {{args[1], args[2]}}])
             ELSE Classify_last_wins(matches, k + 1,
                    [acc EXCEPT !.remove_nodes = @ \cup {args[1]}])

\* variant: the test a == b is missing
RECURSIVE Classify_keeping_self_edits(_, _, _)
Classify_keeping_self_edits(matches, k, acc) ==
    IF k > Len(matches) THEN acc
    ELSE LET op == matches[k][1]
             args == Tail(matches[k])
             add == op = "add"
         IN  IF add \/ (op = "delete" /\ Len(args) = 2)
             THEN IF add
                  THEN Classify_keeping_self_edits(matches, k + 1,
                         [acc EXCEPT !.new_edges = Append(@, <<args[1], args[2]>>)])
                  ELSE Classify_keeping_self_edits(matches, k + 1,
                         [acc EXCEPT !.remove_edges = @ \cup {{args[1], args[2]}}])
             ELSE Classify_keeping_self_edits(matches, k + 1,
                    [acc EXCEPT !.remove_nodes = @ \cup {args[1]}])

\* the for loop over matches: op, *args = match
RECURSIVE Classify(_, _, _)
Classify(matches, k, acc) ==
    IF k > Len(matches) THEN acc
    ELSE LET op == matches[k][1]
             args == Tail(matches[k])
             add == op = "add"
         IN  IF add \/ (op = "delete" /\ Len(args) = 2)
             THEN IF args[1] = args[2]
                  THEN Classify(matches, k + 1, acc)
                  ELSE IF add
                  THEN Classify(matches, k + 1,
                         [acc EXCEPT !.new_edges = Append(@, <<args[1], args[2]>>)])
                  ELSE Classify(matches, k + 1,
                         [acc EXCEPT !.remove_edges = @ \cup {{args[1], args[2]}}])
             ELSE Classify(matches, k + 1,
                    [acc EXCEPT !.remove_nodes = @ \cup {args[1]}])

\* new_edges, remove_edges and remove_nodes after the loop
batch_of(matches) ==
    Classify(matches, 1,
             [new_edges |-> <<>>, remove_edges |-> {}, remove_nodes |-> {}])

(***************************************************************************)
(* Bounds and input sets                                                   *)
(***************************************************************************)
\* longest committed transcript explored (the seed has 5 messages, a round
\* adds 2 and a node deletion adds 1)
MaxConvLen == 9

None == <<>>

Some(v) == <<v>>

\* labels offered to _delete_node and as selected_node
LABELS == <<"A", "B", "Reinforcement learning">>

\* user queries / free texts
QUERIES == <<"machine learning", "  add Deep Learning\n  under Machine learning">>

\* texts the generator may return
REPLIES ==
    << post_init(SEED_REPLY_RAW),
       post_init(SEED_REPLY2_RAW),
       "add(\"A\",\"B\")\nadd(\"B\", \"A\")",
       "  add(\"A\",\"A\")\n  delete(\"B\",\"B\")\n  add(\"B\",\"C\")\n",
       "delete(\"A\")\nadd(\"A\",\"B\")\nadd(\"Machine learning\",\"Deep Learning\")",
       "add(\"A\",\"B\") delete(\"B\",  \"A\") add(\"A\",\"C\") delete(\"B\",\"C\")",
       "Sorry, I can only add(node1, node2) or delete(\"node1)." >>

Labels == {LABELS[i] : i \in 1..Len(LABELS)}

Queries == {QUERIES[i] : i \in 1..Len(QUERIES)}

Replies == {REPLIES[i] : i \in 1..Len(REPLIES)}

\* what client.chat.completions.create and the reply access can produce
Responses ==
    {[kind |-> "ok", content |-> r, role |-> "assistant"] : r \in Replies}
    \cup {[kind |-> "error"], [kind |-> "malformed"]}

(***************************************************************************)
(* The message texts of the two rounds and of _delete_node                 *)
(***************************************************************************)
InitialInstructionText(query) ==
    "\n                Great, now ignore all previous nodes and restart from scratch. I now want you do the following:\n\n                "
    \o query \o "\n            "

ExpandInstructionText(selected_node) ==
    "\n                    add new edges to new nodes, starting from the node \""
    \o selected_node \o "\"\n                "

DeletionRecordText(node) == "delete(\"" \o node \o "\")"

(***************************************************************************)
(* post_init and matches_of, tabulated once over the texts the input sets  *)
(* can produce (the operators themselves are applied to any other text)    *)
(***************************************************************************)
RECURSIVE MapSeq(_, _)
MapSeq(Op(_), seq) ==
    IF seq = <<>> THEN <<>> ELSE <<Op(Head(seq))>> \o MapSeq(Op, Tail(seq))

TEXTS ==
    MapSeq(InitialInstructionText, QUERIES)
    \o MapSeq(ExpandInstructionText, LABELS)
    \o MapSeq(DeletionRecordText, LABELS)
    \o QUERIES \o REPLIES

CONTENTS == MapSeq(post_init, TEXTS)

OUTPUTS == MapSeq(post_init, REPLIES)

MATCHES == MapSeq(matches_of, OUTPUTS)

Lookup(keys, values, key) == values[CHOOSE i \in 1..Len(keys) : keys[i] = key]

Message(content, role) ==
    [content |-> IF \E i \in 1..Len(TEXTS) : TEXTS[i] = content
                 THEN Lookup(TEXTS, CONTENTS, content)
                 ELSE post_init(content),
     role |-> role]

matches(output) ==
    IF \E i \in 1..Len(OUTPUTS) : OUTPUTS[i] = output
    THEN Lookup(OUTPUTS, MATCHES, output)
    ELSE matches_of(output)

(***************************************************************************)
(* Session state                                                           *)
(***************************************************************************)
VARIABLES
    edges,               \* self.edges: the list, as a bag of frozenset(edge)
    nodes,               \* self.nodes: the list of distinct labels, as a set
    conversation,        \* self.conversation, <<>> while the attribute is unset
    has_conversation,    \* whether the attribute self.conversation exists
    start_conversation,  \* the module-level list START_CONVERSATION
    aliased,             \* self.conversation is the module-level list object
    last_expanded,       \* st.session_state.last_expanded, None while unset
    sent,                \* the messages the last operation gave the generator
    last_call,           \* the last operation and its arguments
    outcome              \* how the last operation ended

vars == <<edges, nodes, conversation, has_conversation, start_conversation,
          aliased, last_expanded, sent, last_call, outcome>>

(***************************************************************************)
(* ask_chatgpt                                                             *)
(***************************************************************************)
\* variant: returns [msg] alone instead of conversation + [msg]
ask_chatgpt_reply_only(conv, response) ==
    IF response.kind # "ok"
    THEN [raised |-> TRUE]
    ELSE LET msg == Message(response.content, response.role)
         IN  [raised |-> FALSE, output |-> msg.content,
              conversation |-> <<msg>>]

\* raises when the request fails or the reply lacks choices/message/content;
\* otherwise returns msg.content and a NEW list conversation + [msg]
ask_chatgpt(conv, response) ==
    IF response.kind # "ok"
    THEN [raised |-> TRUE]
    ELSE LET msg == Message(response.content, response.role)
         IN  [raised |-> FALSE, output |-> msg.content,
              conversation |-> conv \o <<msg>>]

(***************************************************************************)
(* parse_and_include_edges                                                 *)
(***************************************************************************)
frozenset(edge) == {edge[i] : i \in 1..Len(edge)}

\* the list self.edges as a sequence of tuples; the order of the list and of
\* each tuple comes from iterating a Python set, and no reader depends on it
RECURSIVE ListOfBag(_)
ListOfBag(B) ==
    IF BagToSet(B) = {} THEN <<>>
    ELSE LET e == CHOOSE e \in BagToSet(B) : TRUE
             a == CHOOSE a \in e : TRUE
             b == IF e = {a} THEN a ELSE CHOOSE b \in e : b # a
             rest == [f \in {f \in BagToSet(B) : f # e \/ B[f] > 1} |->
                         IF f = e THEN B[f] - 1 ELSE B[f]]
         IN  <<<<a, b>>>> \o ListOfBag(rest)

\* variant: the prior edges are kept in replace mode too
candidates_always_extend(self_edges, new_edges, replace) ==
    ListOfBag(self_edges) \o new_edges

\* variant: the prior edges are dropped in extend mode too
candidates_new_only(self_edges, new_edges, replace) == new_edges

\* edges = new_edges if replace else self.edges + new_edges
candidates(self_edges, new_edges, replace) ==
    IF replace THEN new_edges ELSE ListOfBag(self_edges) \o new_edges

\* for edge in edges: skip when already added, or an endpoint is in
\* remove_nodes, or the pair is in remove_edges; otherwise added.add(nodes)
RECURSIVE Walk(_, _, _, _, _)
Walk(cand, k, added, remove_nodes, remove_edges) ==
    IF k > Len(cand) THEN added
    ELSE LET ns == frozenset(cand[k])
         IN  IF \/ ns \in added
                \/ ns \cap remove_nodes # {}
                \/ ns \in remove_edges
             THEN Walk(cand, k + 1, added, remove_nodes, remove_edges)
             ELSE Walk(cand, k + 1, added \cup {ns}, remove_nodes, remove_edges)

\* variant: every candidate that is not removed is kept, repeats included
edges_from_no_dedup(cand, remove_nodes, remove_edges) ==
    LET kept == {k \in 1..Len(cand) :
                    /\ frozenset(cand[k]) \cap remove_nodes = {}
                    /\ frozenset(cand[k]) \notin remove_edges}
    IN  [e \in {frozenset(cand[k]) : k \in kept} |->
            Cardinality({k \in kept : frozenset(cand[k]) = e})]

\* variant: delete(node) operations are not applied
edges_from_ignoring_remove_nodes(cand, remove_nodes, remove_edges) ==
    SetToBag(Walk(cand, 1, {}, {}, remove_edges))

\* self.edges = list([tuple(a) for a in added])
edges_from(cand, remove_nodes, remove_edges) ==
    SetToBag(Walk(cand, 1, {}, remove_nodes, remove_edges))

\* variant: the nodes are derived from self.edges before it is reassigned
nodes_from_stale_edges(edge_bag) == UNION BagToSet(edges)

\* self.nodes = list(set([n for e in self.edges for n in e]))
nodes_from(edge_bag) == UNION BagToSet(edge_bag)

\* the value assigned to self.edges, from the batch b the loop collected
included_edges(self_edges, b, replace) ==
    edges_from(candidates(self_edges, b.new_edges, replace),
               b.remove_nodes, b.remove_edges)

\* variant: returns early, leaving the graph, when nothing matched
parse_and_include_edges_unless_empty(output, replace) ==
    IF matches(output) = <<>>
    THEN UNCHANGED <<edges, nodes>>
    ELSE /\ edges' = included_edges(edges, batch_of(matches(output)), replace)
         /\ nodes' = nodes_from(edges')

\* self.edges is reassigned, then self.nodes is recomputed from it
parse_and_include_edges(output, replace) ==
    /\ edges' = included_edges(edges, batch_of(matches(output)), replace)
    /\ nodes' = nodes_from(edges')

\* variant: the instruction is appended to self.conversation in place, so a
\* failed call leaves the trial transcript committed
round_failed_keeps_trial(conv) ==
    /\ outcome' = "GenerationFailure"
    /\ conversation' = conv
    /\ UNCHANGED <<edges, nodes, has_conversation, aliased>>

\* ask_chatgpt raised: the assignment to self.conversation and the call of
\* parse_and_include_edges are not reached; the trial list conv is dropped
round_failed(conv) ==
    /\ outcome' = "GenerationFailure"
    /\ UNCHANGED <<edges, nodes, conversation, has_conversation, aliased>>

\* output, self.conversation = ask_chatgpt(conversation)
\* self.parse_and_include_edges(output, replace=...)
round_committed(r, replace) ==
    /\ outcome' = "ok"
    /\ conversation' = r.conversation
    /\ has_conversation' = TRUE
    /\ aliased' = FALSE
    /\ parse_and_include_edges(r.output, replace)

(***************************************************************************)
(* MindMap.__init__ (as called by MindMap.load on a new session)           *)
(***************************************************************************)
Init ==
    /\ edges = EmptyBag
    /\ nodes = {}
    /\ conversation = <<>>
    /\ has_conversation = FALSE
    /\ start_conversation = START_CONVERSATION
    /\ aliased = FALSE
    /\ last_expanded = None
    /\ sent = <<>>
    /\ last_call = [op |-> "__init__"]
    /\ outcome = "ok"

(***************************************************************************)
(* ask_for_initial_graph                                                   *)
(***************************************************************************)
\* variant: the instruction is added to START_CONVERSATION in place
\* (conversation = START_CONVERSATION; conversation += [Message(...)])
initial_round_extending_seed(query, response) ==
    LET conv == start_conversation
                \o <<Message(InitialInstructionText(query), "user")>>
        r == ask_chatgpt(conv, response)
    IN  /\ last_call' = [op |-> "ask_for_initial_graph", query |-> query]
        /\ sent' = conv
        /\ start_conversation' = conv
        /\ UNCHANGED last_expanded
        /\ IF r.raised THEN round_failed(conv) ELSE round_committed(r, TRUE)

initial_round(query, response) ==
    LET conv == start_conversation
                \o <<Message(InitialInstructionText(query), "user")>>
        r == ask_chatgpt(conv, response)
    IN  /\ last_call' = [op |-> "ask_for_initial_graph", query |-> query]
        /\ sent' = conv
        /\ UNCHANGED <<start_conversation, last_expanded>>
        /\ IF r.raised THEN round_failed(conv) ELSE round_committed(r, TRUE)

ask_for_initial_graph ==
    \E query \in Queries, response \in Responses :
        /\ Len(start_conversation) + 2 <= MaxConvLen
        /\ initial_round(query, response)

(***************************************************************************)
(* ask_for_extended_graph                                                  *)
(***************************************************************************)
\* variant: the trial transcript restarts from START_CONVERSATION
trial_conversation_from_seed(selected_node, text) ==
    IF selected_node # None
    THEN start_conversation
         \o <<Message(ExpandInstructionText(selected_node[1]), "user")>>
    ELSE start_conversation \o <<Message(text[1], "user")>>

\* conversation = self.conversation + [Message(...)]
trial_conversation(selected_node, text) ==
    IF selected_node # None
    THEN conversation
         \o <<Message(ExpandInstructionText(selected_node[1]), "user")>>
    ELSE conversation \o <<Message(text[1], "user")>>

\* variant: last_expanded is assigned selected_node (None) before the return
do_nothing_after_marking ==
    /\ outcome' = "noop"
    /\ sent' = <<>>
    /\ last_expanded' = None
    /\ UNCHANGED <<edges, nodes, conversation, has_conversation, aliased>>

\* if (selected_node is None and text is None): return
do_nothing ==
    /\ outcome' = "noop"
    /\ sent' = <<>>
    /\ UNCHANGED <<edges, nodes, conversation, has_conversation,
                   aliased, last_expanded>>

extended_round(selected_node, text, response) ==
    /\ last_call' = [op |-> "ask_for_extended_graph",
                     selected_node |-> selected_node, text |-> text]
    /\ UNCHANGED start_conversation
    /\ IF selected_node = None /\ text = None
       THEN do_nothing
       ELSE IF ~has_conversation
       THEN \* self.conversation + [...] reads a missing attribute
            /\ outcome' = "AttributeError"
            /\ sent' = <<>>
            /\ UNCHANGED <<edges, nodes, conversation, has_conversation,
                           aliased, last_expanded>>
       ELSE LET conv == trial_conversation(selected_node, text)
                r == ask_chatgpt(conv, response)
            IN  /\ sent' = conv
                /\ last_expanded' = IF selected_node # None
                                    THEN Some(selected_node[1])
                                    ELSE last_expanded
                /\ IF r.raised THEN round_failed(conv)
                   ELSE round_committed(r, FALSE)

ask_for_extended_graph ==
    \E selected_node \in {None} \cup {Some(l) : l \in Labels},
       text \in {None} \cup {Some(q) : q \in Queries},
       response \in Responses :
        /\ Len(conversation) + 2 <= MaxConvLen
        /\ extended_round(selected_node, text, response)

(***************************************************************************)
(* _delete_node                                                            *)
(***************************************************************************)
\* variant: the membership test is inverted
edges_without_inverted(edge_bag, node) ==
    [e \in {f \in BagToSet(edge_bag) : node \in f} |-> edge_bag[e]]

\* [e for e in self.edges if node not in frozenset(e)]
edges_without(edge_bag, node) ==
    [e \in {f \in BagToSet(edge_bag) : node \notin f} |-> edge_bag[e]]

delete_node(node) ==
    /\ last_call' = [op |-> "_delete_node", node |-> node]
    /\ sent' = <<>>
    /\ edges' = edges_without(edges, node)
    /\ nodes' = nodes_from(edges')
    /\ UNCHANGED <<has_conversation, aliased, last_expanded>>
    /\ IF ~has_conversation
       THEN \* self.conversation.append reads a missing attribute
            /\ outcome' = "AttributeError"
            /\ UNCHANGED <<conversation, start_conversation>>
       ELSE \* list.append mutates the list object in place
            LET record == Message(DeletionRecordText(node), "user")
            IN  /\ outcome' = "ok"
                /\ conversation' = Append(conversation, record)
                /\ start_conversation' =
                      IF aliased THEN Append(start_conversation, record)
                      ELSE start_conversation

_delete_node ==
    \E node \in Labels :
        /\ Len(conversation) + 1 <= MaxConvLen
        /\ delete_node(node)

Next ==
    \/ ask_for_initial_graph
    \/ ask_for_extended_graph
    \/ _delete_node

Spec == Init /\ [][Next]_vars

TypeOK ==
    /\ IsABag(edges)
    /\ has_conversation \in BOOLEAN
    /\ Len(conversation) <= MaxConvLen

(***************************************************************************)
(* Properties                                                              *)
(***************************************************************************)
Last(seq) == seq[Len(seq)]

IsPrefix(a, b) == Len(a) <= Len(b) /\ SubSeq(b, 1, Len(a)) = a

EdgeSet == BagToSet(edges)

IsRound(call) ==
    call.op \in {"ask_for_initial_graph", "ask_for_extended_graph"}

\* the operands of a parsed operation list, by kind
AddEdgeOperands(ms) ==
    {{ms[i][2], ms[i][3]} :
        i \in {j \in 1..Len(ms) :
                 Len(ms[j]) = 3 /\ ms[j][1] = "add" /\ ms[j][2] # ms[j][3]}}

DeleteEdgeOperands(ms) ==
    {{ms[i][2], ms[i][3]} :
        i \in {j \in 1..Len(ms) : Len(ms[j]) = 3 /\ ms[j][1] = "delete"}}

DeleteNodeOperands(ms) ==
    {ms[i][2] : i \in {j \in 1..Len(ms) : Len(ms[j]) = 2}}

\* prior edges and added edges, minus the removals of the same batch
Resolved(prior, ms) ==
    LET deleted_edges == DeleteEdgeOperands(ms)
        deleted_nodes == DeleteNodeOperands(ms)
    IN  {e \in prior \cup AddEdgeOperands(ms) :
            e \notin deleted_edges /\ e \cap deleted_nodes = {}}

\* C1: when the generator call of an initial or an extend round raises, the
\* committed transcript, the edges and the nodes after the round are what
\* they were before it; the trial transcript is not kept.
C1_AtomicRoundOnFailure ==
    [][(IsRound(last_call') /\ outcome' = "GenerationFailure")
        => /\ conversation' = conversation
           /\ has_conversation' = has_conversation
           /\ edges' = edges
           /\ nodes' = nodes]_vars

\* an extend round on a non-empty graph whose generator call failed after
\* the trial transcript was built and sent
C1_Witness ==
    /\ last_call.op = "ask_for_extended_graph"
    /\ outcome = "GenerationFailure"
    /\ edges # EmptyBag
    /\ sent = conversation \o <<Last(sent)>>

\* C2 as stated: in every step the committed transcript before the step is
\* a prefix of the committed transcript after it.
C2_AppendOnlyAlways == [][IsPrefix(conversation, conversation')]_vars

\* C2 as amended: every step other than a successful initial round keeps
\* the committed transcript as a prefix of the new one; a successful initial
\* round replaces it by the seed transcript plus instruction and reply.
C2_AppendOnlyExceptRestart ==
    [][IF last_call'.op = "ask_for_initial_graph" /\ outcome' = "ok"
       THEN /\ IsPrefix(start_conversation, conversation')
            /\ Len(conversation') = Len(start_conversation) + 2
       ELSE IsPrefix(conversation, conversation')]_vars

\* a node deletion that appended its record to the committed transcript
C2_Witness ==
    /\ last_call.op = "_delete_node"
    /\ outcome = "ok"
    /\ Len(conversation) > Len(start_conversation) + 2
    /\ Last(conversation).content = DeletionRecordText(last_call.node)

\* C3: a successful extend round leaves exactly the edges that are prior
\* edges or non-self-loop add operands of the batch, are not delete-edge
\* operands of the batch and have no endpoint among its delete-node operands.
C3_ExtendSemantics ==
    [][(last_call'.op = "ask_for_extended_graph" /\ outcome' = "ok")
        => BagToSet(edges')
              = Resolved(EdgeSet, matches(Last(conversation').content))]_vars

\* an extend round whose batch deletes node A, adds A-B and adds a new edge:
\* the prior edge B-C survives, the new edge is present, A-B is not
C3_Witness ==
    /\ last_call.op = "ask_for_extended_graph"
    /\ outcome = "ok"
    /\ Last(conversation).content = OUTPUTS[5]
    /\ {"B", "C"} \in EdgeSet
    /\ {"Machine learning", "Deep Learning"} \in EdgeSet
    /\ {"A", "B"} \notin EdgeSet

\* C4: _delete_node(X) keeps exactly the prior entries that do not contain
\* X; when X is in no edge the edge collection is unchanged.
C4_DeleteNodeFrame ==
    [][last_call'.op = "_delete_node"
        => /\ BagToSet(edges') = {e \in EdgeSet : last_call'.node \notin e}
           /\ \A e \in BagToSet(edges') : edges'[e] = edges[e]
           /\ (last_call'.node \notin UNION EdgeSet => edges' = edges)]_vars

\* the second of two deletions of the same node of the example graph: its
\* three edges are gone, the other eleven are still there
C4_Witness ==
    /\ last_call = [op |-> "_delete_node", node |-> "Reinforcement learning"]
    /\ Len(conversation) = Len(start_conversation) + 4
    /\ conversation[Len(conversation) - 1] = Last(conversation)
    /\ conversation[Len(conversation) - 2].content = OUTPUTS[1]
    /\ BagCardinality(edges) = 11
    /\ {"Machine learning", "AI"} \in EdgeSet
    /\ "Reinforcement learning" \notin UNION EdgeSet

\* C5: no two entries of the edge collection have the same unordered pair of
\* endpoints, and a replace round whose batch is add(A,B), add(B,A) leaves
\* the single edge {A,B}.
C5_UndirectedDedup ==
    /\ \A e \in EdgeSet : edges[e] = 1
    /\ (/\ last_call.op = "ask_for_initial_graph"
        /\ outcome = "ok"
        /\ matches(Last(conversation).content)
              = << <<"add", "A", "B">>, <<"add", "B", "A">> >>)
       => edges = SetToBag({{"A", "B"}})

\* an extend round that added A-B in both orientations to a graph that
\* already had the edge A-B
C5_Witness ==
    /\ last_call.op = "ask_for_extended_graph"
    /\ outcome = "ok"
    /\ Last(conversation).content = OUTPUTS[3]
    /\ conversation[Len(conversation) - 2].content = OUTPUTS[3]
    /\ Len(conversation) = Len(start_conversation) + 4
    /\ {"A", "B"} \in EdgeSet

IsSelfEdit(m) == Len(m) = 3 /\ m[2] = m[3]

\* C6: before and after every step no edge has equal endpoints, and a
\* successful round resolves to what its batch without the two-argument
\* operations with a = b resolves to.
C6_NoSelfLoops ==
    [][/\ \A e \in EdgeSet \cup BagToSet(edges') : Cardinality(e) = 2
       /\ (IsRound(last_call') /\ outcome' = "ok")
          => LET ms == SelectSeq(matches(Last(conversation').content),
                                 LAMBDA m : ~IsSelfEdit(m))
             IN  BagToSet(edges')
                    = Resolved(IF last_call'.op = "ask_for_initial_graph"
                               THEN {} ELSE EdgeSet, ms)]_vars

\* an extend round whose batch has add(A,A), delete(B,B) and add(B,C), on a
\* graph that had the edge A-B: A-B is kept and B-C added
C6_Witness ==
    /\ last_call.op = "ask_for_extended_graph"
    /\ outcome = "ok"
    /\ Last(conversation).content = OUTPUTS[4]
    /\ edges = SetToBag({{"A", "B"}, {"B", "C"}})

IsScenario1 ==
    /\ last_call.op = "ask_for_initial_graph"
    /\ outcome = "ok"
    /\ Last(conversation).content = start_conversation[3].content

\* C7 as stated: the initial round on the first example reply gives exactly
\* 13 edges, {Machine learning, AI} and {Supervised learning, Regression}
\* among them.
C7_Scenario1ThirteenEdges ==
    IsScenario1
    => /\ BagCardinality(edges) = 13
       /\ {"Machine learning", "AI"} \in EdgeSet
       /\ {"Supervised learning", "Regression"} \in EdgeSet

\* C7 as amended: the initial round on the first example reply gives exactly
\* 14 edges, {Machine learning, AI} and {Supervised learning, Regression}
\* among them.
C7_Scenario1FourteenEdges ==
    IsScenario1
    => /\ BagCardinality(edges) = 14
       /\ {"Machine learning", "AI"} \in EdgeSet
       /\ {"Supervised learning", "Regression"} \in EdgeSet

\* the state after that initial round
C7_Witness == IsScenario1 /\ edges # EmptyBag

\* the graph of scenario 1
Scenario1Graph ==
    included_edges(EmptyBag, batch_of(matches(start_conversation[3].content)), TRUE)

\* an extend round on the graph of scenario 1 whose reply is the second
\* example reply of the seed transcript
IsScenario2Step ==
    /\ last_call'.op = "ask_for_extended_graph"
    /\ outcome' = "ok"
    /\ Last(conversation').content = start_conversation[5].content
    /\ edges = Scenario1Graph

Scenario2Removed ==
    { {"Machine learning", "Reinforcement learning"},
      {"Reinforcement learning", "Proximal Policy Optimization"},
      {"Reinforcement learning", "Q-learning"},
      {"Clustering", "K-means"} }

\* C8 as stated: scenario 2 removes the 4 edges and leaves exactly 8.
C8_Scenario2EightEdges ==
    [][IsScenario2Step
        => /\ EdgeSet \ BagToSet(edges') = Scenario2Removed
           /\ BagCardinality(edges') = 8]_vars

\* C8 as amended: scenario 2 removes the 4 edges and leaves exactly 10.
C8_Scenario2TenEdges ==
    [][IsScenario2Step
        => /\ EdgeSet \ BagToSet(edges') = Scenario2Removed
           /\ BagToSet(edges') \subseteq EdgeSet
           /\ BagCardinality(edges') = 10]_vars

\* the state after scenario 1 followed at once by scenario 2
C8_Witness ==
    /\ last_call.op = "ask_for_extended_graph"
    /\ outcome = "ok"
    /\ Len(conversation) = Len(start_conversation) + 4
    /\ conversation[Len(start_conversation) + 2].content
          = start_conversation[3].content
    /\ Last(conversation).content = start_conversation[5].content
    /\ "Reinforcement learning" \notin UNION EdgeSet
    /\ {"Clustering", "K-means"} \notin EdgeSet

\* C9: _delete_node completes without raising in every reachable state.
C9_DeleteNodeNeverFails == last_call.op = "_delete_node" => outcome = "ok"

\* C10: the node set is the union of the endpoints of the current edges.
C10_NodesDerived ==
    /\ \A n \in nodes : \E e \in EdgeSet : n \in e
    /\ \A e \in EdgeSet : e \subseteq nodes

\* the example graph after the deletion of one of its nodes: the node and
\* its two leaves are no longer tracked, the other twelve are
C10_Witness ==
    /\ last_call = [op |-> "_delete_node", node |-> "Reinforcement learning"]
    /\ Len(conversation) = Len(start_conversation) + 3
    /\ conversation[Len(conversation) - 1].content = OUTPUTS[1]
    /\ Cardinality(nodes) = 12
    /\ "Q-learning" \notin nodes
    /\ "Machine learning" \in nodes

\* C11: a successful round whose reply text has no matching operation ends
\* without error and, in the initial flow (replace=True), leaves no edge and
\* no node whatever the graph was, and in the extend flow (replace=False)
\* leaves the set of unordered edges and the node set as they were.
C11_ParseYieldsNothing ==
    [][(/\ IsRound(last_call')
        /\ sent' # <<>>
        /\ outcome' # "GenerationFailure"
        /\ matches(Last(conversation').content) = <<>>)
        => /\ outcome' = "ok"
           /\ IF last_call'.op = "ask_for_initial_graph"
              THEN edges' = EmptyBag /\ nodes' = {}
              ELSE BagToSet(edges') = EdgeSet /\ nodes' = nodes]_vars

\* an extend round on the example graph whose reply has no operation: the
\* fourteen edges are still there
C11_Witness ==
    /\ last_call.op = "ask_for_extended_graph"
    /\ outcome = "ok"
    /\ Last(conversation).content = OUTPUTS[7]
    /\ matches(OUTPUTS[7]) = <<>>
    /\ edges = Scenario1Graph
    /\ Cardinality(nodes) = 15

\* C12: a round that ends in GenerationFailure leaves the whole session
\* state as it was before the attempt: edges, nodes, committed transcript
\* and the last-expanded marker, in the initial flow and in both variants
\* of the extend flow.
C12_FailureMutatesNothing ==
    [][(IsRound(last_call') /\ outcome' = "GenerationFailure")
        => /\ edges' = edges
           /\ nodes' = nodes
           /\ conversation' = conversation
           /\ has_conversation' = has_conversation
           /\ start_conversation' = start_conversation
           /\ last_expanded' = last_expanded]_vars

\* C13: the extend flow invoked with neither a selected node nor a text
\* returns without calling the generator and leaves the edges, the nodes,
\* the committed transcript and the last-expanded marker unchanged, whatever
\* the session state is.
C13_NoOpEdit ==
    [][(/\ last_call'.op = "ask_for_extended_graph"
        /\ last_call'.selected_node = None
        /\ last_call'.text = None)
        => /\ outcome' = "noop"
           /\ sent' = <<>>
           /\ edges' = edges
           /\ nodes' = nodes
           /\ conversation' = conversation
           /\ has_conversation' = has_conversation
           /\ last_expanded' = last_expanded]_vars

\* the no-op on a session that has a graph, a committed transcript and a
\* last-expanded marker
C13_Witness ==
    /\ last_call.op = "ask_for_extended_graph"
    /\ last_call.selected_node = None
    /\ last_call.text = None
    /\ outcome = "noop"
    /\ sent = <<>>
    /\ edges # EmptyBag
    /\ Len(conversation) > Len(start_conversation)
    /\ last_expanded # None

\* C14: every _delete_node(label) call, also for a label that is in no
\* edge, appends exactly one message to the committed transcript, with role
\* user and content delete("<label>"), and leaves the earlier messages as
\* they were.
C14_DeleteAppendsRecord ==
    [][last_call'.op = "_delete_node"
        => conversation'
              = Append(conversation,
                       [content |-> DeletionRecordText(last_call'.node),
                        role |-> "user"])]_vars

\* the edges as command text, one add("a","b") per edge
RECURSIVE SerializeFrom(_, _)
SerializeFrom(edge_list, k) ==
    IF k > Len(edge_list) THEN ""
    ELSE "add(\"" \o edge_list[k][1] \o "\",\"" \o edge_list[k][2] \o "\")"
         \o (IF k < Len(edge_list) THEN "\n" ELSE "")
         \o SerializeFrom(edge_list, k + 1)

Serialize(edge_bag) == SerializeFrom(ListOfBag(edge_bag), 1)

\* what resolving the serialized graph with replace=True assigns to self.edges
Reparsed == included_edges(edges, batch_of(matches_of(Serialize(edges))), TRUE)

\* C15: in every reachable state, writing each edge {a,b} as add("a","b")
\* and resolving that text with replace=True gives the same set of unordered
\* edges and the same node set.
C15_RoundTrip ==
    /\ BagToSet(Reparsed) = EdgeSet
    /\ nodes_from(Reparsed) = nodes

\* the example graph: fourteen edges, labels with spaces and hyphens, and
\* its text has one command per edge
C15_Witness ==
    /\ edges = Scenario1Graph
    /\ BagCardinality(edges) = 14
    /\ {"Reinforcement learning", "Q-learning"} \in EdgeSet
    /\ Len(matches_of(Serialize(edges))) = 14

\* the edges a replace-mode resolution of operation list ms leaves on prior
ReplaceWith(prior, ms) == included_edges(prior, batch_of(ms), TRUE)

\* C16: for every operation list and every prior graph, resolving with
\* replace=True and resolving the result again with the same list and
\* replace=True give the same edge membership, which is also what the list
\* gives on the empty graph.
C16_ReplaceIdempotent ==
    \A i \in 1..Len(MATCHES) :
        /\ BagToSet(ReplaceWith(ReplaceWith(edges, MATCHES[i]), MATCHES[i]))
              = BagToSet(ReplaceWith(edges, MATCHES[i]))
        /\ BagToSet(ReplaceWith(edges, MATCHES[i]))
              = BagToSet(ReplaceWith(EmptyBag, MATCHES[i]))

\* a prior graph that shares no edge with what the operation list
\* add(A,B) delete(B,A) add(A,C) delete(B,C) resolves to, which is A-C alone
C16_Witness ==
    /\ edges = Scenario1Graph
    /\ MATCHES[6] = << <<"add", "A", "B">>, <<"delete", "B", "A">>,
                       <<"add", "A", "C">>, <<"delete", "B", "C">> >>
    /\ ReplaceWith(edges, MATCHES[6]) = SetToBag({{"A", "C"}})
    /\ ReplaceWith(ReplaceWith(edges, MATCHES[6]), MATCHES[6])
          = SetToBag({{"A", "C"}})

\* the trial transcript of the round that last_call' names
TrialOf(call) ==
    IF call.op = "ask_for_initial_graph"
    THEN start_conversation
         \o <<Message(InitialInstructionText(call.query), "user")>>
    ELSE IF call.selected_node # None
    THEN conversation
         \o <<Message(ExpandInstructionText(call.selected_node[1]), "user")>>
    ELSE conversation \o <<Message(call.text[1], "user")>>

\* C17: a round that calls the generator calls it with the trial transcript
\* (seed plus instruction in the initial flow, committed transcript plus
\* instruction in the extend flow); on success the committed transcript is
\* the trial transcript followed by the reply, and the reply is resolved
\* with replace=True in the initial flow and replace=False in both extend
\* variants; a round that did not succeed leaves the graph unresolved.
C17_CommitStep ==
    [][IsRound(last_call')
        => /\ sent' # <<>> => sent' = TrialOf(last_call')
           /\ outcome' = "ok"
              => /\ sent' # <<>>
                 /\ Len(conversation') = Len(sent') + 1
                 /\ IsPrefix(sent', conversation')
                 /\ Last(conversation').role = "assistant"
                 /\ BagToSet(edges')
                       = Resolved(IF last_call'.op = "ask_for_initial_graph"
                                  THEN {} ELSE EdgeSet,
                                  matches(Last(conversation').content))
           /\ outcome' = "GenerationFailure"
              => sent' # <<>> /\ edges' = edges /\ nodes' = nodes
           /\ outcome' \notin {"ok", "GenerationFailure"}
              => sent' = <<>> /\ edges' = edges /\ nodes' = nodes]_vars

\* an extend round by free text that committed: the transcript is what was
\* sent plus the reply, and the prior edge A-B is kept next to the new one
C17_Witness ==
    /\ last_call.op = "ask_for_extended_graph"
    /\ last_call.selected_node = None
    /\ last_call.text = Some(QUERIES[2])
    /\ outcome = "ok"
    /\ conversation = sent \o <<Last(conversation)>>
    /\ Last(sent) = [content |-> post_init(QUERIES[2]), role |-> "user"]
    /\ Last(conversation).content = OUTPUTS[5]
    /\ {"B", "C"} \in EdgeSet
    /\ {"Machine learning", "Deep Learning"} \in EdgeSet

\* the first position at or after pos where the pattern matches, Len(s) + 1
\* when there is none
NextHit(pattern, s, pos) ==
    CHOOSE j \in pos..(Len(s) + 1) :
        /\ j = Len(s) + 1 \/ MatchesAt(pattern, s, j)
        /\ \A k \in pos..(j - 1) : ~MatchesAt(pattern, s, k)

\* the operations the pattern matches in s, at every position where it
\* matches, by increasing position
RECURSIVE HitsFrom(_, _, _)
HitsFrom(pattern, s, pos) ==
    IF NextHit(pattern, s, pos) > Len(s) THEN <<>>
    ELSE <<MatchAt(pattern, s, NextHit(pattern, s, pos)).groups>>
         \o HitsFrom(pattern, s, NextHit(pattern, s, pos) + 1)

\* all two-argument operations in textual order, then all one-argument ones
OpsByKindThenPosition(s) == HitsFrom(1, s, 1) \o HitsFrom(2, s, 1)

OPS_BY_KIND_THEN_POSITION == MapSeq(OpsByKindThenPosition, OUTPUTS)

\* C18: the operation list of a text is all its two-argument matches (add or
\* delete of an edge) in textual order followed by all its one-argument
\* matches (delete of a node) in textual order, for every reply text and in
\* particular for the reply a committed round resolved.
C18_ParserOperationOrder ==
    /\ \A i \in 1..Len(OUTPUTS) : MATCHES[i] = OPS_BY_KIND_THEN_POSITION[i]
    /\ (IsRound(last_call) /\ outcome = "ok")
       => matches(Last(conversation).content)
             = Lookup(OUTPUTS, OPS_BY_KIND_THEN_POSITION,
                      Last(conversation).content)

\* a committed round whose reply starts with delete("A") and goes on with
\* two adds: the node deletion is the last operation of the list
C18_Witness ==
    /\ IsRound(last_call)
    /\ outcome = "ok"
    /\ StartsWith(Last(conversation).content, 1, "delete(\"A\")\nadd(")
    /\ matches(Last(conversation).content)
          = << <<"add", "A", "B">>,
               <<"add", "Machine learning", "Deep Learning">>,
               <<"delete", "A">> >>

\* longest operation list of which every permutation is resolved
MaxPermLen == 4

\* seq with x inserted so that it becomes element k
InsertAt(seq, k, x) ==
    SubSeq(seq, 1, k - 1) \o <<x>> \o SubSeq(seq, k, Len(seq))

RECURSIVE Perms(_)
Perms(seq) ==
    IF seq = <<>> THEN {<<>>}
    ELSE UNION {{InsertAt(p, k, Head(seq)) : k \in 1..(Len(p) + 1)} :
                   p \in Perms(Tail(seq))}

RECURSIVE Reverse(_)
Reverse(seq) ==
    IF seq = <<>> THEN <<>> ELSE Append(Reverse(Tail(seq)), Head(seq))

\* the reorderings of an operation list that are resolved: all of them up
\* to MaxPermLen operations, the reversed list beyond
Reorderings(ms) == IF Len(ms) <= MaxPermLen THEN Perms(ms) ELSE {Reverse(ms)}

BatchesOfReorderings(ms) == {batch_of(p) : p \in Reorderings(ms)}

REORDERED_BATCHES == MapSeq(BatchesOfReorderings, MATCHES)

\* C19: for every prior graph, mode flag and operation list, every
\* reordering of the list resolves to the same edge membership as the list
\* itself; a deletion of an edge or of a node wins over an add of the same
\* edge of the same batch wherever the add stands.
C19_OrderIndependent ==
    \A i \in 1..Len(MATCHES) : \A replace \in BOOLEAN :
        \A b \in REORDERED_BATCHES[i] :
            /\ BagToSet(included_edges(edges, b, replace))
                  = BagToSet(included_edges(edges, batch_of(MATCHES[i]), replace))
            /\ \A k \in 1..Len(b.new_edges) :
                  (\/ frozenset(b.new_edges[k]) \in b.remove_edges
                   \/ frozenset(b.new_edges[k]) \cap b.remove_nodes # {})
                  => frozenset(b.new_edges[k])
                        \notin BagToSet(included_edges(edges, b, replace))

\* an extend round on a graph with the edge A-B whose reply is
\* add(A,B) delete(B,A) add(A,C) delete(B,C): A-B is gone and A-C is there,
\* and the list with the deletions first resolves the prior graph likewise
C19_Witness ==
    /\ last_call.op = "ask_for_extended_graph"
    /\ outcome = "ok"
    /\ Last(conversation).content = OUTPUTS[6]
    /\ conversation[Len(conversation) - 2].content = OUTPUTS[3]
    /\ Len(conversation) = Len(start_conversation) + 4
    /\ edges = SetToBag({{"A", "C"}})
    /\ Cardinality(Reorderings(MATCHES[6])) = 24
    /\ included_edges(SetToBag({{"A", "B"}}),
                      batch_of(<< <<"delete", "B", "C">>, <<"delete", "B", "A">>,
                                  <<"add", "A", "C">>, <<"add", "A", "B">> >>),
                      FALSE) = edges

\* C20: the seed transcript is never modified and the committed transcript
\* is never the seed list itself, so the in-place append of _delete_node
\* cannot reach it; every initial round sends the generator the seed
\* messages followed by exactly one instruction message.
C20_SeedNeverModified ==
    /\ start_conversation = START_CONVERSATION
    /\ ~aliased
    /\ last_call.op = "ask_for_initial_graph"
       => sent = START_CONVERSATION
                 \o <<Message(InitialInstructionText(last_call.query), "user")>>

\* an initial round attempted after a committed round and two node
\* deletions appended their records in place: the generator call failed, the
\* committed transcript still ends with the two records, and what was sent
\* is the five seed messages plus one instruction
C20_Witness ==
    /\ last_call.op = "ask_for_initial_graph"
    /\ outcome = "GenerationFailure"
    /\ Len(conversation) = Len(START_CONVERSATION) + 4
    /\ Last(conversation).content = DeletionRecordText("A")
    /\ conversation[Len(conversation) - 1].content = DeletionRecordText("B")
    /\ Len(sent) = 6
    /\ SubSeq(sent, 1, 5) = START_CONVERSATION
====
